---- MODULE Spec2Model ----
(***************************************************************************)
(* Shipment discount calculator (vinted.py).                               *)
(*                                                                         *)
(* Text is a sequence of one-character strings, so that split, strip,      *)
(* join, slicing and number formatting are computed and not assumed.       *)
(* Money is kept in integer cents.  The program uses binary floats; on     *)
(* every month record the program can reach (at most one 6.90 grant per    *)
(* month, every other grant 0.50 or a clamp to the remaining budget) the   *)
(* float comparisons, the two-decimal rendering and the "== 10.0" test     *)
(* agree with the cent arithmetic below.                                   *)
(***************************************************************************)
EXTENDS Integers, Sequences, FiniteSets, TLC

VARIABLES
    raw_transactions,        \* argument of validate_transactions
    validated_transactions,  \* result of validate_transactions
    processed_transactions,  \* output list of process_transactions
    tracking_data,           \* defaultdict: year_month -> record
    pc,                      \* position in the pipeline
    idx,                     \* position of the for loop of process_transactions
    entry,                   \* loop variable of process_transactions
    new_price,               \* locals of process_transactions, set by the
    discount_amount,         \*   call of calculate_discount
    line,                    \* what the loop body appended (<<>>: nothing yet)
    history                  \* ghost: per year_month, what has been processed

vars == <<raw_transactions, validated_transactions, processed_transactions,
          tracking_data, pc, idx, entry, new_price, discount_amount, line,
          history>>

-----------------------------------------------------------------------------
(* Bounds of the model *)

\* longest list handed to validate_transactions
MaxLines == 2

\* most L/LP transactions streamed into one month
MaxLLP == 4

\* longest list handed to the two calls of process_transactions
MaxRunLen == 4

-----------------------------------------------------------------------------
(* Text *)

Whitespace == {" ", "\t"}

DigitChars == <<"0", "1", "2", "3", "4", "5", "6", "7", "8", "9">>

Digits == {DigitChars[k] : k \in 1..10}

DigitVal(c) == (CHOOSE k \in 1..10 : DigitChars[k] = c) - 1

Ignored == <<"I", "g", "n", "o", "r", "e", "d">>

S == <<"S">>
M == <<"M">>
L == <<"L">>
LP == <<"L", "P">>
MR == <<"M", "R">>

\* str.split(): the maximal runs of non-whitespace characters, in order
RECURSIVE split_from(_, _, _, _)
split_from(s, k, cur, acc) ==
    IF k > Len(s)
    THEN IF cur = <<>> THEN acc ELSE Append(acc, cur)
    ELSE IF s[k] \in Whitespace
         THEN split_from(s, k + 1, <<>>,
                         IF cur = <<>> THEN acc ELSE Append(acc, cur))
         ELSE split_from(s, k + 1, Append(cur, s[k]), acc)

split(s) == split_from(s, 1, <<>>, <<>>)

\* str.strip(): leading and trailing whitespace removed, the inside kept
RECURSIVE lstrip(_)
lstrip(s) ==
    IF s # <<>> /\ Head(s) \in Whitespace THEN lstrip(Tail(s)) ELSE s

RECURSIVE rstrip(_)
rstrip(s) ==
    IF s # <<>> /\ s[Len(s)] \in Whitespace
    THEN rstrip(SubSeq(s, 1, Len(s) - 1))
    ELSE s

strip(s) == rstrip(lstrip(s))

\* " ".join(parts)
RECURSIVE join(_)
join(parts) ==
    IF parts = <<>> THEN <<>>
    ELSE IF Len(parts) = 1 THEN parts[1]
    ELSE parts[1] \o <<" ">> \o join(Tail(parts))

\* a variant that cuts 3 characters early (the year alone, of a date)
slice_to_short(s, n) == SubSeq(s, 1, IF Len(s) < n - 3 THEN Len(s) ELSE n - 3)

\* s[:n]
slice_to(s, n) == SubSeq(s, 1, IF Len(s) < n THEN Len(s) ELSE n)

\* str(n) for n >= 0
RECURSIVE int_str(_)
int_str(n) ==
    IF n < 10 THEN <<DigitChars[n + 1]>>
    ELSE int_str(n \div 10) \o <<DigitChars[(n % 10) + 1]>>

\* f"{x:.2f}" of an amount of cents (a minus sign before an amount below 0)
fmt2(cents) ==
    LET a == IF cents < 0 THEN -cents ELSE cents
    IN  (IF cents < 0 THEN <<"-">> ELSE <<>>)
            \o int_str(a \div 100) \o <<".">>
            \o <<DigitChars[((a % 100) \div 10) + 1],
                 DigitChars[(a % 10) + 1]>>

-----------------------------------------------------------------------------
(* datetime.datetime.strptime(date, "%Y-%m-%d") *)

ValueError == [error |-> "ValueError"]

raises(r) == "error" \in DOMAIN r

\* %m is the pattern 1[0-2]|0[1-9]|[1-9]: the number of characters of r it
\* takes, 0 when it does not match
month_match(r) ==
    IF Len(r) >= 2 /\ r[1] = "1" /\ r[2] \in {"0", "1", "2"} THEN 2
    ELSE IF Len(r) >= 2 /\ r[1] = "0" /\ r[2] \in Digits \ {"0"} THEN 2
    ELSE IF Len(r) >= 1 /\ r[1] \in Digits \ {"0"} THEN 1
    ELSE 0

\* %d is the pattern 3[0-1]|[1-2]\d|0[1-9]|[1-9] (the alternative with a
\* leading blank cannot occur inside a token of split)
day_match(r) ==
    IF Len(r) >= 2 /\ r[1] = "3" /\ r[2] \in {"0", "1"} THEN 2
    ELSE IF Len(r) >= 2 /\ r[1] \in {"1", "2"} /\ r[2] \in Digits THEN 2
    ELSE IF Len(r) >= 2 /\ r[1] = "0" /\ r[2] \in Digits \ {"0"} THEN 2
    ELSE IF Len(r) >= 1 /\ r[1] \in Digits \ {"0"} THEN 1
    ELSE 0

RECURSIVE number(_)
number(ds) ==
    IF ds = <<>> THEN 0
    ELSE 10 * number(SubSeq(ds, 1, Len(ds) - 1)) + DigitVal(ds[Len(ds)])

is_leap(y) == y % 4 = 0 /\ (y % 100 # 0 \/ y % 400 = 0)

days_in_month(y, m) ==
    IF m = 2 THEN (IF is_leap(y) THEN 29 ELSE 28)
    ELSE IF m \in {4, 6, 9, 11} THEN 30 ELSE 31

\* The parsed date, or ValueError: the pattern (\d\d\d\d)-(%m)-(%d) must match
\* at the start of the token and use all of it, and the numbers must be a
\* date of the calendar (year >= 1, day within the month).
strptime(date) ==
    IF ~(Len(date) >= 5 /\ (\A k \in 1..4 : date[k] \in Digits) /\ date[5] = "-")
    THEN ValueError
    ELSE LET r  == SubSeq(date, 6, Len(date))
             ml == month_match(r)
         IN  IF ml = 0 \/ Len(r) < ml + 1 \/ r[ml + 1] # "-"
             THEN ValueError
             ELSE LET t  == SubSeq(r, ml + 2, Len(r))
                      dl == day_match(t)
                  IN  IF dl = 0 \/ dl # Len(t)
                      THEN ValueError
                      ELSE LET y == number(SubSeq(date, 1, 4))
                               m == number(SubSeq(r, 1, ml))
                               d == number(t)
                           IN  IF y < 1 \/ d > days_in_month(y, m)
                               THEN ValueError
                               ELSE [year |-> y, month |-> m, day |-> d]

-----------------------------------------------------------------------------
(* Validator *)

valid_sizes == {S, M, L}

valid_providers == {LP, MR}

\* (date, size, provider), or (transaction, "Ignored")
check_transaction(transaction) ==
    LET parts == split(transaction)
    IN  IF Len(parts) # 3 THEN <<transaction, Ignored>>
        ELSE IF raises(strptime(parts[1])) THEN <<transaction, Ignored>>
        ELSE IF parts[2] \notin valid_sizes \/ parts[3] \notin valid_providers
             THEN <<transaction, Ignored>>
        ELSE <<parts[1], parts[2], parts[3]>>

validate_transactions_valid_only(raw) ==
    SelectSeq([k \in 1..Len(raw) |-> check_transaction(raw[k])],
              LAMBDA e : e[Len(e)] # Ignored)

validate_transactions(raw) == [k \in 1..Len(raw) |-> check_transaction(raw[k])]

-----------------------------------------------------------------------------
(* Discount engine *)

PRICES ==
    (LP :> ((S :> 150) @@ (M :> 490) @@ (L :> 690))) @@
    (MR :> ((S :> 200) @@ (M :> 300) @@ (L :> 400)))

monthly_limit == 1000

\* PRICES[provider].get(size, 0.0)
price_get(provider, size) ==
    IF size \in DOMAIN PRICES[provider] THEN PRICES[provider][size] ELSE 0

\* the default factory of tracking_data
default_record == [L_LP_count |-> 0, discount |-> 0]

\* a variant that stores a new default record at every access
touch_reset(td, year_month) ==
    [k \in DOMAIN td \cup {year_month} |->
        IF k = year_month THEN default_record ELSE td[k]]

\* tracking_data[year_month]: a missing key is inserted with the default
touch(td, year_month) ==
    IF year_month \in DOMAIN td THEN td ELSE td @@ (year_month :> default_record)

\* Variants with a slip in them (a swapped branch, a comparison that is off,
\* a clamp that is not applied) stand before the definition they vary; the
\* properties below are tried against them.

min2_swapped(a, b) == IF a < b THEN b ELSE a

\* min(a, b)
min2(a, b) == IF a < b THEN a ELSE b

is_third_or_later(current_count) == current_count >= 3

is_third_off_by_one(current_count) == current_count = 4

\* current_count == 3
is_third(current_count) == current_count = 3

over_limit_never(total) == FALSE

\* total > monthly_limit
over_limit(total) == total > monthly_limit

remaining_none(discount) == 0

remaining_short(discount) == monthly_limit - discount - 1

remaining_whole(discount) == monthly_limit

\* monthly_limit - tracking_data[year_month]["discount"]
remaining(discount) == monthly_limit - discount

\* What the call returns, and tracking_data as the call leaves it.
calculate_discount(size, provider, year_month, td) ==
    IF size = L /\ provider = LP
    THEN LET t1 == touch(td, year_month)
             current_count == t1[year_month].L_LP_count + 1
             t2 == [t1 EXCEPT ![year_month].L_LP_count = current_count]
         IN  IF is_third(current_count)
             THEN LET candidate == PRICES[provider][L]
                      total_discount == t2[year_month].discount + candidate
                  IN  IF over_limit(total_discount)
                      THEN LET granted == remaining(t2[year_month].discount)
                           IN  [new_price |-> PRICES[provider][L] - granted,
                                discount_amount |-> granted,
                                tracking_data |->
                                    [t2 EXCEPT ![year_month].discount = @ + granted]]
                      ELSE [new_price |-> 0,
                            discount_amount |-> candidate,
                            tracking_data |->
                                [t2 EXCEPT ![year_month].discount = @ + candidate]]
             ELSE [new_price |-> PRICES[provider][L],
                   discount_amount |-> 0,
                   tracking_data |-> t2]
    ELSE IF size = S
    THEN LET lowest_price_size_s == min2(PRICES[LP][S], PRICES[MR][S])
             candidate == PRICES[provider][S] - lowest_price_size_s
         IN  IF candidate # 0
             THEN LET t1 == touch(td, year_month)
                  IN  IF over_limit(t1[year_month].discount + candidate)
                      THEN LET granted == remaining(t1[year_month].discount)
                           IN  [new_price |-> PRICES[provider][S] - granted,
                                discount_amount |-> granted,
                                tracking_data |->
                                    [t1 EXCEPT ![year_month].discount = @ + granted]]
                      ELSE [new_price |-> lowest_price_size_s,
                            discount_amount |-> candidate,
                            tracking_data |->
                                [t1 EXCEPT ![year_month].discount = @ + candidate]]
             ELSE [new_price |-> PRICES[provider][S],
                   discount_amount |-> 0,
                   tracking_data |-> td]
    ELSE [new_price |-> price_get(provider, size),
          discount_amount |-> 0,
          tracking_data |-> td]

\* entry[-1] == "Ignored"
is_ignored(e) == Len(e) > 0 /\ e[Len(e)] = Ignored

cleaned_transaction_text_only(e) == e[1]

\* the text appended for an entry marked "Ignored"
cleaned_transaction(e) == join([k \in 1..Len(e) |-> strip(e[k])])

\* a variant that never writes the dash
formatted_numbers_only(date, size, provider, price, np, da) ==
    join(<<date, size, provider, fmt2(np), fmt2(da)>>)

\* the text appended for a priced entry
formatted(date, size, provider, price, np, da) ==
    IF np = price /\ da = 0
    THEN join(<<date, size, provider, fmt2(price), <<"-">> >>)
    ELSE join(<<date, size, provider, fmt2(np), fmt2(da)>>)

\* a variant that reads the month record of an entry before it tests the mark
process_entry_touching(e, td, np0, da0) ==
    IF is_ignored(e)
    THEN [appended |-> <<cleaned_transaction(e)>>,
          new_price |-> np0, discount_amount |-> da0,
          tracking_data |-> touch(td, slice_to(e[1], 7))]
    ELSE IF Len(e) = 3
    THEN LET r == calculate_discount(e[2], e[3], slice_to(e[1], 7), td)
         IN  [appended |-> <<formatted(e[1], e[2], e[3], price_get(e[3], e[2]),
                                       r.new_price, r.discount_amount)>>,
              new_price |-> r.new_price,
              discount_amount |-> r.discount_amount,
              tracking_data |-> r.tracking_data]
    ELSE [appended |-> <<>>,
          new_price |-> np0, discount_amount |-> da0, tracking_data |-> td]

\* One pass of the loop body of process_transactions on entry e: the lines it
\* appends (one or none), the locals and tracking_data as it leaves them.
process_entry(e, td, np0, da0) ==
    IF is_ignored(e)
    THEN [appended |-> <<cleaned_transaction(e)>>,
          new_price |-> np0, discount_amount |-> da0, tracking_data |-> td]
    ELSE IF Len(e) = 3
    THEN LET date == e[1]
             size == e[2]
             provider == e[3]
             year_month == slice_to(date, 7)
             price == price_get(provider, size)
             r == calculate_discount(size, provider, year_month, td)
         IN  [appended |-> <<formatted(date, size, provider, price,
                                       r.new_price, r.discount_amount)>>,
              new_price |-> r.new_price,
              discount_amount |-> r.discount_amount,
              tracking_data |-> r.tracking_data]
    ELSE [appended |-> <<>>,
          new_price |-> np0, discount_amount |-> da0, tracking_data |-> td]

\* the loop of process_transactions from entry k on
RECURSIVE process_from(_, _, _, _, _, _)
process_from(transactions, k, td, np, da, out) ==
    IF k > Len(transactions) THEN out
    ELSE LET r == process_entry(transactions[k], td, np, da)
         IN  process_from(transactions, k + 1, r.tracking_data, r.new_price,
                          r.discount_amount, out \o r.appended)

\* process_transactions(transactions): the list it returns, from an empty
\* output list and an empty tracking_data
process_transactions(transactions) ==
    process_from(transactions, 1, <<>>, 0, 0, <<>>)

-----------------------------------------------------------------------------
(* Inputs *)

\* the lines a list handed to validate_transactions is drawn from
Lines == {
    \* '2024-08-09 S LP'  (valid)
    <<"2", "0", "2", "4", "-", "0", "8", "-", "0", "9", " ", "S", " ", "L", "P">>,
    \* '2024-08-10 L LP'  (valid)
    <<"2", "0", "2", "4", "-", "0", "8", "-", "1", "0", " ", "L", " ", "L", "P">>,
    \* '2024-8-9 L LP'  (month and day not zero-padded)
    <<"2", "0", "2", "4", "-", "8", "-", "9", " ", "L", " ", "L", "P">>,
    \* '2024-09-01 S MR'  (valid, another month)
    <<"2", "0", "2", "4", "-", "0", "9", "-", "0", "1", " ", "S", " ", "M", "R">>,
    \* '2024-02-29 M MR'  (valid, leap day)
    <<"2", "0", "2", "4", "-", "0", "2", "-", "2", "9", " ", "M", " ", "M", "R">>,
    \* '2023-02-29 M MR'  (29 February of a common year)
    <<"2", "0", "2", "3", "-", "0", "2", "-", "2", "9", " ", "M", " ", "M", "R">>,
    \* '2024-13-01 S LP'  (month 13)
    <<"2", "0", "2", "4", "-", "1", "3", "-", "0", "1", " ", "S", " ", "L", "P">>,
    \* '2024-02-30 M MR'  (30 February)
    <<"2", "0", "2", "4", "-", "0", "2", "-", "3", "0", " ", "M", " ", "M", "R">>,
    \* '24-08-09 S LP'  (two-digit year)
    <<"2", "4", "-", "0", "8", "-", "0", "9", " ", "S", " ", "L", "P">>,
    \* '2024-08-09 S'  (two tokens)
    <<"2", "0", "2", "4", "-", "0", "8", "-", "0", "9", " ", "S">>,
    \* '2024-08-09 S LP MR'  (four tokens)
    <<"2", "0", "2", "4", "-", "0", "8", "-", "0", "9", " ", "S", " ", "L", "P", " ", "M", "R">>,
    \* ' bad  line '  (blanks around and inside)
    <<" ", "b", "a", "d", " ", " ", "l", "i", "n", "e", " ">>,
    \* ''  (empty line)
    <<>>,
    \* '2024-08-09 S XY'  (unknown provider)
    <<"2", "0", "2", "4", "-", "0", "8", "-", "0", "9", " ", "S", " ", "X", "Y">>,
    \* '2024-08-09 X LP'  (unknown size)
    <<"2", "0", "2", "4", "-", "0", "8", "-", "0", "9", " ", "X", " ", "L", "P">>,
    \* '2024-08-09<tab>S  LP '  (valid, tab and blanks between the tokens)
    <<"2", "0", "2", "4", "-", "0", "8", "-", "0", "9", "\t", "S", " ", " ", "L", "P", " ">>
    }

\* the lines the stream of the engine is drawn from: both providers and all
\* sizes in one month, the two kinds that change a month's record in another
\* month, and one malformed line
EngineLines == {
    \* '2024-08-10 S LP'
    <<"2", "0", "2", "4", "-", "0", "8", "-", "1", "0", " ", "S", " ", "L", "P">>,
    \* '2024-08-10 S MR'
    <<"2", "0", "2", "4", "-", "0", "8", "-", "1", "0", " ", "S", " ", "M", "R">>,
    \* '2024-08-10 M LP'
    <<"2", "0", "2", "4", "-", "0", "8", "-", "1", "0", " ", "M", " ", "L", "P">>,
    \* '2024-08-10 M MR'
    <<"2", "0", "2", "4", "-", "0", "8", "-", "1", "0", " ", "M", " ", "M", "R">>,
    \* '2024-08-10 L LP'
    <<"2", "0", "2", "4", "-", "0", "8", "-", "1", "0", " ", "L", " ", "L", "P">>,
    \* '2024-08-10 L MR'
    <<"2", "0", "2", "4", "-", "0", "8", "-", "1", "0", " ", "L", " ", "M", "R">>,
    \* '2024-08-02 L LP'  (an earlier day of the month, which may come later)
    <<"2", "0", "2", "4", "-", "0", "8", "-", "0", "2", " ", "L", " ", "L", "P">>,
    \* '2024-09-01 S MR'
    <<"2", "0", "2", "4", "-", "0", "9", "-", "0", "1", " ", "S", " ", "M", "R">>,
    \* '2024-09-01 L LP'
    <<"2", "0", "2", "4", "-", "0", "9", "-", "0", "1", " ", "L", " ", "L", "P">>,
    \* 'bad line'
    <<"b", "a", "d", " ", "l", "i", "n", "e">>
    }

-----------------------------------------------------------------------------
(* State *)

\* the month's discount used and L/LP count; a month without a record has
\* the default ones
used(td, ym) == IF ym \in DOMAIN td THEN td[ym].discount ELSE 0

count(td, ym) == IF ym \in DOMAIN td THEN td[ym].L_LP_count ELSE 0

is_priced(e) == ~is_ignored(e) /\ Len(e) = 3

year_month_of(e) == slice_to(e[1], 7)

is_L_LP(e) == is_priced(e) /\ e[2] = L /\ e[3] = LP

\* Ghost record of a month: llp, the number of its L/LP transactions
\* processed; granted, the sum of the discounts returned for its
\* transactions; third and third_used, the discount returned for its third
\* L/LP transaction and the discount used just before it (-1: not yet).
no_history == [llp |-> 0, granted |-> 0, third |-> -1, third_used |-> -1]

hist(h, ym) == IF ym \in DOMAIN h THEN h[ym] ELSE no_history

record_history(h, e, da, used_before) ==
    IF ~is_priced(e) \/ (~is_L_LP(e) /\ da = 0) THEN h
    ELSE LET ym  == year_month_of(e)
             old == hist(h, ym)
             n   == IF is_L_LP(e) THEN old.llp + 1 ELSE old.llp
             rec == [llp |-> n,
                     granted |-> old.granted + da,
                     third |-> IF is_L_LP(e) /\ n = 3 THEN da ELSE old.third,
                     third_used |-> IF is_L_LP(e) /\ n = 3 THEN used_before
                                    ELSE old.third_used]
         IN  [k \in DOMAIN h \cup {ym} |-> IF k = ym THEN rec ELSE h[k]]

\* the loop body of process_transactions applied to entry e
LoopBody(e) ==
    LET r == process_entry(e, tracking_data, new_price, discount_amount)
    IN  /\ entry' = e
        /\ new_price' = r.new_price
        /\ discount_amount' = r.discount_amount
        /\ tracking_data' = r.tracking_data
        /\ line' = r.appended
        /\ history' = record_history(history, e,
                         IF is_priced(e) THEN r.discount_amount ELSE 0,
                         IF is_priced(e) THEN used(tracking_data, year_month_of(e))
                         ELSE 0)

Fresh ==
    /\ validated_transactions = <<>>
    /\ processed_transactions = <<>>
    /\ tracking_data = <<>>
    /\ idx = 1
    /\ entry = <<>>
    /\ new_price = 0
    /\ discount_amount = 0
    /\ line = <<>>
    /\ history = <<>>

-----------------------------------------------------------------------------
(* The pipeline of main: validate_transactions, then process_transactions *)

Init ==
    /\ raw_transactions \in UNION {[1..n -> Lines] : n \in 0..MaxLines}
    /\ pc = "validate"
    /\ Fresh

Validate ==
    /\ pc = "validate"
    /\ validated_transactions' = validate_transactions(raw_transactions)
    /\ pc' = "process"
    /\ UNCHANGED <<raw_transactions, processed_transactions, tracking_data, idx,
                   entry, new_price, discount_amount, line, history>>

ProcessNext ==
    /\ pc = "process"
    /\ idx <= Len(validated_transactions)
    /\ LoopBody(validated_transactions[idx])
    /\ processed_transactions' = processed_transactions \o line'
    /\ idx' = idx + 1
    /\ UNCHANGED <<raw_transactions, validated_transactions, pc>>

Return ==
    /\ pc = "process"
    /\ idx > Len(validated_transactions)
    /\ pc' = "done"
    /\ UNCHANGED <<raw_transactions, validated_transactions,
                   processed_transactions, tracking_data, idx, entry, new_price,
                   discount_amount, line, history>>

Next == Validate \/ ProcessNext \/ Return

Spec == Init /\ [][Next]_vars

-----------------------------------------------------------------------------
(* The loop of process_transactions on a stream of validated entries of any  *)
(* length: the entries come one at a time and the output list is not kept,   *)
(* only the line appended last.                                              *)

\* what validate_transactions makes of the lines of the stream
EngineEntries == {check_transaction(l) : l \in EngineLines}

InitEngine ==
    /\ raw_transactions = <<>>
    /\ pc = "stream"
    /\ Fresh

Stream ==
    /\ pc = "stream"
    /\ \E e \in EngineEntries :
          /\ is_L_LP(e) => hist(history, year_month_of(e)).llp < MaxLLP
          /\ LoopBody(e)
    /\ UNCHANGED <<raw_transactions, validated_transactions,
                   processed_transactions, pc, idx>>

NextEngine == Stream

SpecEngine == InitEngine /\ [][NextEngine]_vars

-----------------------------------------------------------------------------
(* Two calls of process_transactions, one after the other, on the same list    *)

\* the lines the list of the two calls is drawn from
RunLines == {
    \* '2024-08-10 L LP'
    <<"2", "0", "2", "4", "-", "0", "8", "-", "1", "0", " ", "L", " ", "L", "P">>,
    \* '2024-08-02 L LP'  (an earlier day of the same month)
    <<"2", "0", "2", "4", "-", "0", "8", "-", "0", "2", " ", "L", " ", "L", "P">>,
    \* '2024-8-9 L LP'  (the same month, not zero-padded)
    <<"2", "0", "2", "4", "-", "8", "-", "9", " ", "L", " ", "L", "P">>,
    \* '2024-08-10 S MR'
    <<"2", "0", "2", "4", "-", "0", "8", "-", "1", "0", " ", "S", " ", "M", "R">>,
    \* '2024-09-01 L LP'  (another month)
    <<"2", "0", "2", "4", "-", "0", "9", "-", "0", "1", " ", "L", " ", "L", "P">>,
    \* 'bad line'  (malformed)
    <<"b", "a", "d", " ", "l", "i", "n", "e">>
    }

InitRuns ==
    /\ raw_transactions \in UNION {[1..n -> RunLines] : n \in 0..MaxRunLen}
    /\ pc = "validate"
    /\ Fresh

CallAgain_keeps_tracking ==
    /\ pc = "done"
    /\ pc' = "process_again"
    /\ processed_transactions' = <<>>
    /\ idx' = 1
    /\ entry' = <<>>
    /\ new_price' = 0
    /\ discount_amount' = 0
    /\ line' = <<>>
    /\ history' = <<>>
    /\ UNCHANGED <<raw_transactions, validated_transactions, tracking_data>>

\* the second call begins: its output list and its tracking_data are made
\* anew, its other locals are not yet bound
CallAgain ==
    /\ pc = "done"
    /\ pc' = "process_again"
    /\ processed_transactions' = <<>>
    /\ tracking_data' = <<>>
    /\ idx' = 1
    /\ entry' = <<>>
    /\ new_price' = 0
    /\ discount_amount' = 0
    /\ line' = <<>>
    /\ history' = <<>>
    /\ UNCHANGED <<raw_transactions, validated_transactions>>

ProcessNextAgain ==
    /\ pc = "process_again"
    /\ idx <= Len(validated_transactions)
    /\ LoopBody(validated_transactions[idx])
    /\ processed_transactions' = processed_transactions \o line'
    /\ idx' = idx + 1
    /\ UNCHANGED <<raw_transactions, validated_transactions, pc>>

ReturnAgain ==
    /\ pc = "process_again"
    /\ idx > Len(validated_transactions)
    /\ pc' = "done_again"
    /\ UNCHANGED <<raw_transactions, validated_transactions,
                   processed_transactions, tracking_data, idx, entry, new_price,
                   discount_amount, line, history>>

NextRuns ==
    \/ Validate
    \/ ProcessNext
    \/ Return
    \/ CallAgain
    \/ ProcessNextAgain
    \/ ReturnAgain

SpecRuns == InitRuns /\ [][NextRuns]_vars

-----------------------------------------------------------------------------
(* Properties of the engine, under SpecEngine *)

Months == DOMAIN tracking_data \cup DOMAIN history

\* C1: for every year-month key, the discounts granted to the month's
\* transactions sum to at most 10.00, and the month's tracked discount is at
\* most 10.00.
C1_DiscountWithinLimit ==
    \A ym \in Months :
        /\ hist(history, ym).granted <= 1000
        /\ used(tracking_data, ym) <= 1000

\* a grant was cut to the last 0.10 of the budget, which is now used up
C1_Witness ==
    /\ is_priced(entry)
    /\ discount_amount = 10
    /\ hist(history, year_month_of(entry)).granted = 1000
    /\ used(tracking_data, year_month_of(entry)) = 1000

\* C6: an L/LP transaction that is not the third L/LP transaction of its
\* month in processing order is charged 6.90 with discount 0, whatever the
\* order of the dates.
C6_OnlyThirdLLPDiscounted ==
    (is_L_LP(entry) /\ hist(history, year_month_of(entry)).llp # 3)
        => (new_price = 690 /\ discount_amount = 0)

\* the fourth L/LP transaction of a month whose third one was free, with an
\* earlier date than the transaction before it
C6_Witness ==
    /\ is_L_LP(entry)
    /\ entry[1] = <<"2", "0", "2", "4", "-", "0", "8", "-", "0", "2">>
    /\ hist(history, year_month_of(entry)).llp = 4
    /\ hist(history, year_month_of(entry)).third = 690
    /\ new_price = 690
    /\ discount_amount = 0

\* this step processes the third L/LP transaction of its month
ThirdLLPStep ==
    /\ is_L_LP(entry')
    /\ hist(history, year_month_of(entry')).llp = 2
    /\ hist(history', year_month_of(entry')).llp = 3

\* C7: the third L/LP transaction of a month, processed when the month's
\* discount used plus 6.90 is at most 10.00, is charged 0.00 with discount
\* 6.90, and the month's discount used grows by exactly 6.90.
C7_ThirdLLPFree ==
    [][(ThirdLLPStep /\ used(tracking_data, year_month_of(entry')) + 690 <= 1000)
         => /\ new_price' = 0
            /\ discount_amount' = 690
            /\ used(tracking_data', year_month_of(entry'))
                 = used(tracking_data, year_month_of(entry')) + 690]_vars

\* a free third L/LP transaction in a month that had used 3.00 before it
C7_Witness ==
    /\ is_L_LP(entry)
    /\ hist(history, year_month_of(entry)).llp = 3
    /\ hist(history, year_month_of(entry)).third_used = 300
    /\ new_price = 0
    /\ discount_amount = 690
    /\ used(tracking_data, year_month_of(entry)) = 990

\* C8 as stated: in a month with four L/LP transactions the third one got a
\* discount above 0.
C8_ThirdAlwaysDiscounted ==
    \A ym \in DOMAIN history :
        history[ym].llp >= 4 => history[ym].third > 0

\* C8, amended: in a month with four L/LP transactions the third one got a
\* discount above 0 if the month's discount used was below 10.00 when it was
\* processed.
C8_ThirdDiscountedWithinBudget ==
    \A ym \in DOMAIN history :
        (history[ym].llp >= 4 /\ history[ym].third_used < 1000)
            => history[ym].third > 0

\* four L/LP transactions in a month that had used 9.50 before the third one,
\* which got the last 0.50
C8_Witness ==
    \E ym \in DOMAIN history :
        /\ history[ym].llp >= 4
        /\ history[ym].third_used = 950
        /\ history[ym].third = 50

\* the candidate discount of the transaction this step processes: 6.90 for
\* the third L/LP transaction of a month, the price above the cheapest S price
\* for an S transaction, none otherwise
StepCandidate ==
    IF ThirdLLPStep THEN 690
    ELSE IF is_priced(entry') /\ entry'[2] = S /\ entry'[3] = MR THEN 200 - 150
    ELSE 0

StepBasePrice ==
    IF ~is_priced(entry') THEN 0
    ELSE IF entry'[3] = LP
         THEN (IF entry'[2] = S THEN 150 ELSE IF entry'[2] = M THEN 490 ELSE 690)
         ELSE (IF entry'[2] = S THEN 200 ELSE IF entry'[2] = M THEN 300 ELSE 400)

\* C9: when the candidate discount of Rule A or Rule B would take the month's
\* discount used above 10.00, the discount granted is 10.00 minus the discount
\* used, the discount used becomes 10.00, and the price charged is the base
\* price minus the discount granted, which is above 0.
C9_ClampToRemainingBudget ==
    [][(StepCandidate > 0
          /\ used(tracking_data, year_month_of(entry')) + StepCandidate > 1000)
         => /\ discount_amount' = 1000 - used(tracking_data, year_month_of(entry'))
            /\ used(tracking_data', year_month_of(entry')) = 1000
            /\ new_price' = StepBasePrice - discount_amount'
            /\ new_price' > 0]_vars

\* an S/MR transaction cut to 0.10 in one month, after a third L/LP
\* transaction was cut to a part of 6.90 in another month
C9_Witness ==
    /\ is_priced(entry)
    /\ entry[2] = S
    /\ entry[3] = MR
    /\ discount_amount = 10
    /\ new_price = 190
    /\ \E ym \in DOMAIN history :
          /\ ym # year_month_of(entry)
          /\ history[ym].third > 0
          /\ history[ym].third < 690

\* C10: an S/MR transaction processed when the month's discount used plus
\* 0.50 is at most 10.00 is charged 1.50 with discount 0.50, and the month's
\* discount used grows by exactly 0.50.
C10_SmallMRPriceMatched ==
    [][(is_priced(entry') /\ entry'[2] = S /\ entry'[3] = MR
          /\ used(tracking_data, year_month_of(entry')) + 50 <= 1000)
         => /\ new_price' = 150
            /\ discount_amount' = 50
            /\ used(tracking_data', year_month_of(entry'))
                 = used(tracking_data, year_month_of(entry')) + 50]_vars

\* an S/MR transaction matched in full with the last 0.50 of the budget
C10_Witness ==
    /\ is_priced(entry)
    /\ entry[2] = S
    /\ entry[3] = MR
    /\ new_price = 150
    /\ discount_amount = 50
    /\ used(tracking_data, year_month_of(entry)) = 1000

\* the base price of a priced entry, as the price table of the specification
\* gives it
BasePriceOf(e) ==
    IF e[3] = <<"L", "P">>
    THEN (IF e[2] = <<"S">> THEN 150 ELSE IF e[2] = <<"M">> THEN 490 ELSE 690)
    ELSE (IF e[2] = <<"S">> THEN 200 ELSE IF e[2] = <<"M">> THEN 300 ELSE 400)

\* C11: an S/LP transaction is charged its base price 1.50 with discount 0 in
\* every state, and processing it leaves the month-tracking state as it was
\* (no record made, no count or discount used changed).
C11_SmallLPUntouched ==
    [][(is_priced(entry') /\ entry'[2] = <<"S">> /\ entry'[3] = <<"L", "P">>)
         => /\ new_price' = 150
            /\ discount_amount' = 0
            /\ tracking_data' = tracking_data]_vars

\* an S/LP transaction at full price in a month that has no record, while
\* another month has its budget used up
C11_Witness ==
    /\ is_priced(entry)
    /\ entry[2] = <<"S">>
    /\ entry[3] = <<"L", "P">>
    /\ new_price = 150
    /\ discount_amount = 0
    /\ year_month_of(entry) \notin DOMAIN tracking_data
    /\ \E ym \in DOMAIN tracking_data : tracking_data[ym].discount = 1000

\* the last and the last but one token of the line appended last
LastField == LET t == split(line[1]) IN t[Len(t)]

PriceField == LET t == split(line[1]) IN t[Len(t) - 1]

\* amount of cents with 2 decimal places
TwoDecimals(c) ==
    LET d == <<"0", "1", "2", "3", "4", "5", "6", "7", "8", "9">>
    IN  (IF c >= 1000 THEN <<d[(c \div 1000) + 1]>> ELSE <<>>)
            \o <<d[((c \div 100) % 10) + 1], ".",
                 d[((c \div 10) % 10) + 1], d[(c % 10) + 1]>>

\* C15: the line of a priced transaction has 5 fields; the last one is the
\* dash exactly when the discount applied is 0 (also when a candidate was cut
\* to 0), otherwise the discount with 2 decimal places; the one before it is
\* the price charged with 2 decimal places.
C15_DashIffNoDiscount ==
    is_priced(entry) =>
        /\ Len(line) = 1
        /\ Len(split(line[1])) = 5
        /\ (LastField = <<"-">>) <=> (discount_amount = 0)
        /\ discount_amount # 0 => LastField = TwoDecimals(discount_amount)
        /\ PriceField = TwoDecimals(new_price)

\* an S/MR transaction whose candidate was cut to 0 is put out with the dash
C15_Witness ==
    /\ is_priced(entry)
    /\ entry[2] = <<"S">>
    /\ entry[3] = <<"M", "R">>
    /\ discount_amount = 0
    /\ used(tracking_data, year_month_of(entry)) = 1000
    /\ line = << <<"2", "0", "2", "4", "-", "0", "8", "-", "1", "0", " ", "S",
                   " ", "M", "R", " ", "2", ".", "0", "0", " ", "-">> >>

\* C16: after every step each month's tracked discount used is the sum of the
\* discounts applied so far to the month's transactions, and it is not below
\* what it was before the step.
C16_UsedIsSumAndGrows ==
    [][\A ym \in DOMAIN tracking_data' \cup DOMAIN history'
                   \cup DOMAIN tracking_data :
          /\ used(tracking_data', ym) = hist(history', ym).granted
          /\ used(tracking_data', ym) >= used(tracking_data, ym)]_vars

\* a month whose discount used is the sum of a part of 6.90 and of 0.50s
C16_Witness ==
    \E ym \in DOMAIN tracking_data :
        /\ tracking_data[ym].discount = 1000
        /\ hist(history, ym).granted = 1000
        /\ hist(history, ym).third = 600

\* C17: an M transaction and an L/MR transaction are charged their base price
\* with discount 0 and leave the month-tracking state as it was; an L/LP
\* transaction that is not the third of its month adds 1 to the L/LP count of
\* its month and changes no discount used and no record of another month.
C17_NoRuleLeavesBudget ==
    [][/\ (is_priced(entry')
             /\ (entry'[2] = <<"M">>
                   \/ (entry'[2] = <<"L">> /\ entry'[3] = <<"M", "R">>)))
          => /\ new_price' = BasePriceOf(entry')
             /\ discount_amount' = 0
             /\ tracking_data' = tracking_data
       /\ (is_L_LP(entry')
             /\ hist(history', year_month_of(entry')).llp
                  = hist(history, year_month_of(entry')).llp + 1
             /\ hist(history', year_month_of(entry')).llp # 3)
          => /\ count(tracking_data', year_month_of(entry'))
                  = count(tracking_data, year_month_of(entry')) + 1
             /\ \A ym \in DOMAIN tracking_data' \cup DOMAIN tracking_data :
                   /\ used(tracking_data', ym) = used(tracking_data, ym)
                   /\ ym # year_month_of(entry')
                        => /\ ym \in DOMAIN tracking_data
                           /\ tracking_data'[ym] = tracking_data[ym]]_vars

\* the fourth L/LP transaction of a month with a part of its budget used,
\* while another month has a record too
C17_Witness ==
    /\ is_L_LP(entry)
    /\ count(tracking_data, year_month_of(entry)) = 4
    /\ used(tracking_data, year_month_of(entry)) = 740
    /\ \E ym \in DOMAIN tracking_data :
          ym # year_month_of(entry) /\ tracking_data[ym].discount > 0

\* C18: for a priced transaction the price charged plus the discount applied
\* is the base price of its provider and size, and neither is below 0.
C18_PricePlusDiscountIsBase ==
    is_priced(entry) =>
        /\ new_price + discount_amount = BasePriceOf(entry)
        /\ new_price >= 0
        /\ discount_amount >= 0

\* a third L/LP transaction that got a part of its price as discount
C18_Witness ==
    /\ is_L_LP(entry)
    /\ discount_amount = 350
    /\ new_price = 340

\* C19: a transaction of a month whose discount used is 10.00 is charged its
\* base price with discount 0 and put out with the dash, and the month's
\* discount used stays 10.00.
C19_ExhaustedBudgetStays ==
    [][(is_priced(entry') /\ used(tracking_data, year_month_of(entry')) = 1000)
         => /\ new_price' = BasePriceOf(entry')
            /\ discount_amount' = 0
            /\ LET t == split(line'[1]) IN t[Len(t)] = <<"-">>
            /\ used(tracking_data', year_month_of(entry')) = 1000]_vars

\* the third L/LP transaction of a month whose budget was used up before it
C19_Witness ==
    /\ is_L_LP(entry)
    /\ hist(history, year_month_of(entry)).llp = 3
    /\ hist(history, year_month_of(entry)).third_used = 1000
    /\ new_price = 690
    /\ discount_amount = 0
    /\ LastField = <<"-">>
    /\ used(tracking_data, year_month_of(entry)) = 1000

-----------------------------------------------------------------------------
(* Properties of the pipeline, under Spec *)

\* the k-th entry was marked "Ignored" by the validator
Rejected(k) == is_ignored(validated_transactions[k])

iso_date(tok) ==
    /\ Len(tok) = 10
    /\ \A k \in {1, 2, 3, 4, 6, 7, 9, 10} : tok[k] \in Digits
    /\ tok[5] = "-"
    /\ tok[8] = "-"
    /\ LET y == number(SubSeq(tok, 1, 4))
           m == number(SubSeq(tok, 6, 7))
           d == number(SubSeq(tok, 9, 10))
       IN  /\ y >= 1
           /\ m \in 1..12
           /\ d \in 1..days_in_month(y, m)

\* C3: two accepted lines whose dates lie in the same calendar year and month
\* are tracked under the same year-month key (the first 7 characters of the
\* date token).
C3_SameMonthSameKey ==
    \A j, k \in 1..Len(validated_transactions) :
        LET a == validated_transactions[j]
            b == validated_transactions[k]
        IN  (/\ is_priced(a)
             /\ is_priced(b)
             /\ strptime(a[1]).year = strptime(b[1]).year
             /\ strptime(a[1]).month = strptime(b[1]).month)
                => slice_to(a[1], 7) = slice_to(b[1], 7)

\* the tokens of a are the first tokens of b, in order
TokensKept(a, b) ==
    /\ Len(split(a)) <= Len(split(b))
    /\ SubSeq(split(b), 1, Len(split(a))) = split(a)

\* C4: every input line yields exactly one output line, in input order: while
\* the loop runs there is one output line per entry passed, and at the end
\* the output is as long as the input and its k-th line carries the tokens
\* of the k-th input line.
C4_OneOutputPerInput ==
    /\ pc \in {"process", "done"} =>
          /\ Len(validated_transactions) = Len(raw_transactions)
          /\ Len(processed_transactions) = idx - 1
    /\ pc = "done" =>
          /\ Len(processed_transactions) = Len(raw_transactions)
          /\ \A k \in 1..Len(raw_transactions) :
                TokensKept(raw_transactions[k], processed_transactions[k])

\* a malformed line followed by a valid one, both put out
C4_Witness ==
    /\ pc = "done"
    /\ Len(raw_transactions) >= 2
    /\ Rejected(1)
    /\ is_priced(validated_transactions[2])
    /\ Len(processed_transactions) = Len(raw_transactions)

\* C5: check_transaction returns (date, size, provider) exactly when the line
\* splits into 3 tokens, the first a calendar date in the form YYYY-MM-DD, the
\* second in {S, M, L}, the third in {LP, MR}; otherwise it returns the line
\* with the mark "Ignored".
C5_ValidIffWellFormed ==
    \A k \in 1..Len(validated_transactions) :
        LET parts == split(raw_transactions[k])
            well_formed ==
                /\ Len(parts) = 3
                /\ iso_date(parts[1])
                /\ parts[2] \in {<<"S">>, <<"M">>, <<"L">>}
                /\ parts[3] \in {<<"L", "P">>, <<"M", "R">>}
        IN  IF well_formed
            THEN validated_transactions[k] = <<parts[1], parts[2], parts[3]>>
            ELSE validated_transactions[k]
                   = <<raw_transactions[k], <<"I", "g", "n", "o", "r", "e", "d">> >>

-----------------------------------------------------------------------------
(* Properties of whole calls of process_transactions, under SpecRuns *)

\* the calendar year and month of a priced entry
MonthOf(e) == <<strptime(e[1]).year, strptime(e[1]).month>>

\* seq with the elements at j and k exchanged
Swapped(seq, j, k) ==
    [n \in 1..Len(seq) |->
        IF n = j THEN seq[k] ELSE IF n = k THEN seq[j] ELSE seq[n]]

\* the elements of out at the positions where the entry of v passes Test
RECURSIVE Pick(_, _, _, _)
Pick(out, v, Test(_), n) ==
    IF n > Len(v) THEN <<>>
    ELSE (IF Test(v[n]) THEN <<out[n]>> ELSE <<>>) \o Pick(out, v, Test, n + 1)

\* entries j < k are priced and lie in different calendar months
DifferentMonths(v, j, k) ==
    /\ j < k
    /\ is_priced(v[j])
    /\ is_priced(v[k])
    /\ MonthOf(v[j]) # MonthOf(v[k])

\* no entry between j and k lies in the month of entry j or of entry k
NoneBetween(v, j, k) ==
    \A n \in (j + 1)..(k - 1) :
        is_priced(v[n]) => MonthOf(v[n]) \notin {MonthOf(v[j]), MonthOf(v[k])}

\* C12 as stated: with any two transactions of different months exchanged in
\* the input, every transaction gets the price and discount it got before.
C12_AnySwapKeepsResults ==
    pc = "done" =>
        \A j, k \in 1..Len(validated_transactions) :
            DifferentMonths(validated_transactions, j, k) =>
                process_transactions(Swapped(validated_transactions, j, k))
                    = Swapped(processed_transactions, j, k)

\* C12, amended: with two transactions of different months exchanged, no
\* transaction of either month lying between them, every transaction gets the
\* price and discount it got before; and the lines of each month are those of
\* a call on the month's own transactions alone, in their order.
C12_MonthsIndependent ==
    pc = "done" =>
        /\ \A j, k \in 1..Len(validated_transactions) :
              (DifferentMonths(validated_transactions, j, k)
                 /\ NoneBetween(validated_transactions, j, k)) =>
                  process_transactions(Swapped(validated_transactions, j, k))
                      = Swapped(processed_transactions, j, k)
        /\ \A m \in 1..Len(validated_transactions) :
              is_priced(validated_transactions[m]) =>
                  LET InMonth(e) ==
                          is_priced(e)
                            /\ MonthOf(e) = MonthOf(validated_transactions[m])
                  IN  Pick(processed_transactions, validated_transactions,
                           InMonth, 1)
                        = process_transactions(
                              SelectSeq(validated_transactions, InMonth))

\* a list of three L/LP transactions of one month with one of another month
\* among them: the third of the month is free
C12_Witness ==
    /\ pc = "done"
    /\ Len(validated_transactions) = 4
    /\ is_L_LP(validated_transactions[1])
    /\ is_L_LP(validated_transactions[2])
    /\ is_L_LP(validated_transactions[3])
    /\ is_L_LP(validated_transactions[4])
    /\ MonthOf(validated_transactions[1]) = MonthOf(validated_transactions[2])
    /\ MonthOf(validated_transactions[3]) # MonthOf(validated_transactions[1])
    /\ MonthOf(validated_transactions[4]) = MonthOf(validated_transactions[1])
    /\ year_month_of(validated_transactions[4])
         = year_month_of(validated_transactions[1])
    /\ year_month_of(validated_transactions[2])
         = year_month_of(validated_transactions[1])
    /\ discount_amount = 690

\* C13: a step of the loop on a malformed entry leaves tracking_data as it
\* was, and the lines of the valid transactions are those of a call on the
\* list without its malformed entries.
C13_MalformedLeavesState ==
    [][/\ (pc \in {"process", "process_again"}
             /\ idx' = idx + 1
             /\ is_ignored(validated_transactions[idx]))
          => tracking_data' = tracking_data
       /\ pc' = "done"
          => Pick(processed_transactions', validated_transactions', is_priced, 1)
               = process_transactions(
                     SelectSeq(validated_transactions', is_priced))]_vars

\* a malformed line stood between the second and the third L/LP transaction
\* of a month, and the third one is free
C13_Witness ==
    /\ pc = "done"
    /\ Len(validated_transactions) = 4
    /\ is_L_LP(validated_transactions[1])
    /\ is_L_LP(validated_transactions[2])
    /\ is_ignored(validated_transactions[3])
    /\ is_L_LP(validated_transactions[4])
    /\ DOMAIN tracking_data = {year_month_of(validated_transactions[4])}
    /\ discount_amount = 690

\* C14: each call of process_transactions begins with an empty tracking_data
\* and an empty output list, and the list a call returns, the first as the
\* second, is the one the input alone determines.
C14_SecondCallSameOutput ==
    /\ (pc \in {"process", "process_again"} /\ idx = 1)
          => (tracking_data = <<>> /\ processed_transactions = <<>>)
    /\ pc \in {"done", "done_again"}
          => processed_transactions = process_transactions(validated_transactions)

\* the second call, too, made the third L/LP transaction of a month free
C14_Witness ==
    /\ pc = "done_again"
    /\ Len(validated_transactions) = 3
    /\ is_L_LP(validated_transactions[3])
    /\ tracking_data[year_month_of(validated_transactions[3])].L_LP_count = 3
    /\ discount_amount = 690
    /\ Len(processed_transactions) = 3

====
